---- MODULE Spec2Model ----
(***************************************************************************)
(* Model of app.py: the tool dispatcher (run_tools_on_file), the process   *)
(* runner (safe_run), the suspicion scorer (compute_suspicion_score) and   *)
(* the /analyze route that chains them.                                    *)
(*                                                                         *)
(* Texts whose content the code inspects (tool stdout/stderr, the file     *)
(* name) are sequences of one-character strings, so that lower(), strip(), *)
(* slicing, "in" and endswith() are computed.  Tool names, error tags and  *)
(* reason messages, which the code only compares or emits whole, are TLA+  *)
(* strings.                                                                *)
(*                                                                         *)
(* Left out of the result dicts: "elapsed" (wall-clock time, read by no    *)
(* rule).  "cmd" holds the argument vector that line 74 joins and quotes.  *)
(* Text is ASCII with "\n" line breaks.  A dict.get() that returns None is *)
(* read as the empty text: the code only tests either for truthiness.      *)
(* subprocess.run (standard library) starts one child, blocks until it     *)
(* exits, and on a timeout or any other error in communicate() kills and   *)
(* reaps it before raising.                                                *)
(***************************************************************************)
EXTENDS Integers, Sequences, FiniteSets, TLC

VARIABLES
    pc,             \* position of the control flow
    caller,         \* who entered: "analyze" (route), "direct" (function call), "score" (scorer call)
    form_tools,     \* request.form.getlist("tools") / the selection handed in
    selected_tools, \* the list run_tools_on_file iterates
    idx,            \* position of the for loop in selected_tools (1-based)
    filename,       \* name of the analysed file
    filepath,       \* its path
    results,        \* dict tool name -> result dict
    alive,          \* child processes currently alive (pids)
    procs,          \* every process ever started: <<[tool, cmd]>>, pid = index
    score,          \* the scorer's accumulator
    reasons,        \* the scorer's reasons list
    verdict,        \* the scorer's verdict
    response        \* what the route answered last

vars == << pc, caller, form_tools, selected_tools, idx, filename, filepath,
           results, alive, procs, score, reasons, verdict, response >>

-----------------------------------------------------------------------------
(* Bounds *)

MaxTools == 2

\* line counts of the binwalk outputs tried
BinwalkLines == {2, 19, 21}

-----------------------------------------------------------------------------
(* Text primitives *)

\* the ASCII letters str.lower() changes
LowerMap ==
    ("A" :> "a") @@ ("B" :> "b") @@ ("C" :> "c") @@ ("D" :> "d")
    @@ ("E" :> "e") @@ ("F" :> "f") @@ ("G" :> "g") @@ ("H" :> "h")
    @@ ("I" :> "i") @@ ("J" :> "j") @@ ("K" :> "k") @@ ("L" :> "l")
    @@ ("M" :> "m") @@ ("N" :> "n") @@ ("O" :> "o") @@ ("P" :> "p")
    @@ ("Q" :> "q") @@ ("R" :> "r") @@ ("S" :> "s") @@ ("T" :> "t")
    @@ ("U" :> "u") @@ ("V" :> "v") @@ ("W" :> "w") @@ ("X" :> "x")
    @@ ("Y" :> "y") @@ ("Z" :> "z")

\* str.lower() on ASCII text
Lower(s) ==
    LET low == [k \in 1..Len(s) |->
                   IF s[k] \in DOMAIN LowerMap THEN LowerMap[s[k]] ELSE s[k]]
    IN  SubSeq(low, 1, Len(s))

Whitespace == {" ", "\n", "\t", "\r"}

\* str.strip()
Strip(s) ==
    LET keep == {k \in 1..Len(s) : s[k] \notin Whitespace}
    IN  IF keep = {} THEN << >>
        ELSE SubSeq(s, CHOOSE a \in keep : \A b \in keep : a <= b,
                       CHOOSE a \in keep : \A b \in keep : a >= b)

\* pat in s
Contains(s, pat) ==
    \/ pat = << >>
    \/ \E k \in 1..(Len(s) - Len(pat) + 1) :
          s[k] = pat[1] /\ SubSeq(s, k, k + Len(pat) - 1) = pat

\* s.endswith(suf)
EndsWith(s, suf) ==
    /\ Len(s) >= Len(suf)
    /\ \A j \in 1..Len(suf) : s[Len(s) - Len(suf) + j] = suf[j]

\* s[:n]
Slice(s, n) ==
    IF Len(s) <= n THEN s ELSE SubSeq(s, 1, n)

\* len(s.splitlines()) for text whose only line break is "\n"
LineCount(s) ==
    IF s = << >> THEN 0
    ELSE Cardinality({k \in 1..Len(s) : s[k] = "\n"})
         + (IF s[Len(s)] = "\n" THEN 0 ELSE 1)

\* dict.get(key, default)
Get(d, key, default) ==
    IF key \in DOMAIN d THEN d[key] ELSE default

EmptyDict == << >>

\* d[key] = value
Put(d, key, value) ==
    [k \in DOMAIN d \cup {key} |-> IF k = key THEN value ELSE d[k]]

Elems(seq) ==
    {seq[k] : k \in 1..Len(seq)}

-----------------------------------------------------------------------------
(* Configuration *)

HEAD_LEN == 800

\* the registry with an informational-only tool added to it
TOOL_COMMANDS_Blkid ==
    [t \in {"exiftool", "exiv2", "identify", "mat2", "strings", "binwalk",
            "ffprobe", "mediainfo", "readelf", "objdump", "rabin2",
            "pdfinfo", "pdfimages", "docx2txt", "qpdf", "mutool",
            "tshark", "file", "blkid"} |->
        CASE t = "exiftool"  -> << "exiftool", "{file}" >>
          [] t = "exiv2"     -> << "exiv2", "{file}" >>
          [] t = "identify"  -> << "identify", "-verbose", "{file}" >>
          [] t = "mat2"      -> << "mat2", "{file}" >>
          [] t = "strings"   -> << "strings", "-a", "{file}" >>
          [] t = "binwalk"   -> << "binwalk", "{file}" >>
          [] t = "ffprobe"   -> << "ffprobe", "-v", "error", "-show_format",
                                   "-show_streams", "-print_format", "json", "{file}" >>
          [] t = "mediainfo" -> << "mediainfo", "{file}" >>
          [] t = "readelf"   -> << "readelf", "-h", "{file}" >>
          [] t = "objdump"   -> << "objdump", "-f", "{file}" >>
          [] t = "rabin2"    -> << "rabin2", "-I", "{file}" >>
          [] t = "pdfinfo"   -> << "pdfinfo", "{file}" >>
          [] t = "pdfimages" -> << "pdfimages", "-list", "{file}" >>
          [] t = "docx2txt"  -> << "docx2txt", "{file}", "-" >>
          [] t = "qpdf"      -> << "qpdf", "--show-encryption", "{file}" >>
          [] t = "mutool"    -> << "mutool", "info", "{file}" >>
          [] t = "tshark"    -> << "tshark", "-r", "{file}" >>
          [] t = "file"      -> << "file", "-k", "{file}" >>
          [] t = "blkid"     -> << "blkid", "{file}" >>]

TOOL_COMMANDS ==
    [t \in {"exiftool", "exiv2", "identify", "mat2", "strings", "binwalk",
            "ffprobe", "mediainfo", "readelf", "objdump", "rabin2",
            "pdfinfo", "pdfimages", "docx2txt", "qpdf", "mutool",
            "tshark", "file"} |->
        CASE t = "exiftool"  -> << "exiftool", "{file}" >>
          [] t = "exiv2"     -> << "exiv2", "{file}" >>
          [] t = "identify"  -> << "identify", "-verbose", "{file}" >>
          [] t = "mat2"      -> << "mat2", "{file}" >>
          [] t = "strings"   -> << "strings", "-a", "{file}" >>
          [] t = "binwalk"   -> << "binwalk", "{file}" >>
          [] t = "ffprobe"   -> << "ffprobe", "-v", "error", "-show_format",
                                   "-show_streams", "-print_format", "json", "{file}" >>
          [] t = "mediainfo" -> << "mediainfo", "{file}" >>
          [] t = "readelf"   -> << "readelf", "-h", "{file}" >>
          [] t = "objdump"   -> << "objdump", "-f", "{file}" >>
          [] t = "rabin2"    -> << "rabin2", "-I", "{file}" >>
          [] t = "pdfinfo"   -> << "pdfinfo", "{file}" >>
          [] t = "pdfimages" -> << "pdfimages", "-list", "{file}" >>
          [] t = "docx2txt"  -> << "docx2txt", "{file}", "-" >>
          [] t = "qpdf"      -> << "qpdf", "--show-encryption", "{file}" >>
          [] t = "mutool"    -> << "mutool", "info", "{file}" >>
          [] t = "tshark"    -> << "tshark", "-r", "{file}" >>
          [] t = "file"      -> << "file", "-k", "{file}" >>]

DANGEROUS_TOOLS ==
    << "autopsy", "sleuthkit", "blkid", "lsblk", "dumpe2fs", "mmls", "fsstat",
       "istat", "tcpdump (root)", "pdftk (may require extra packages)",
       "metadata-cleaner (GUI)", "exiftool-gui" >>

\* the default selection without exiftool
DEFAULT_TOOLS_Two ==
    << "file", "strings" >>

DEFAULT_TOOLS ==
    << "file", "strings", "exiftool" >>

SAMPLE_FILE_PATH ==
    "/mnt/data/A_digital_photograph_displays_a_daytime_landscape_.png"

TXT_JPEG ==
    << "j", "p", "e", "g" >>

TXT_PNG ==
    << "p", "n", "g" >>

TXT_PDF ==
    << "p", "d", "f" >>

EXT_JPG ==
    << ".", "j", "p", "g" >>

EXT_JPEG ==
    << ".", "j", "p", "e", "g" >>

EXT_PNG ==
    << ".", "p", "n", "g" >>

EXT_PDF ==
    << ".", "p", "d", "f" >>

TXT_MZ ==
    << "m", "z" >>

TXT_ELF ==
    << "e", "l", "f" >>

TXT_ELF_UPPER ==
    << "E", "L", "F" >>

KW_PASSWORD ==
    << "p", "a", "s", "s", "w", "o", "r", "d" >>

KW_SECRET ==
    << "s", "e", "c", "r", "e", "t" >>

KW_KEY ==
    << "k", "e", "y", "=" >>

KW_PRIVATE_KEY ==
    << "p", "r", "i", "v", "a", "t", "e", " ", "k", "e", "y" >>

KW_BEGIN ==
    << "-", "-", "-", "-", "-", "b", "e", "g", "i", "n" >>

FileOutPng ==
    << "P", "N", "G", " ", "i", "m", "a", "g", "e", " ", "d", "a", "t", "a",
       ",", " ", "8", "0", "0", "x", "6", "0", "0" >>

FileOutAll ==
    << "J", "P", "E", "G", " ", "i", "m", "a", "g", "e", " ", "d", "a", "t",
       "a", "\n", "-", " ", "P", "D", "F", " ", "d", "o", "c", "u", "m",
       "e", "n", "t", "\n", "-", " ", "p", "n", "g" >>

FileOutText ==
    << "A", "S", "C", "I", "I", " ", "t", "e", "x", "t" >>

NamePhotoJpg ==
    << "p", "h", "o", "t", "o", ".", "j", "p", "g" >>

NamePhotoPng ==
    << "p", "h", "o", "t", "o", ".", "p", "n", "g" >>

NameScanJpeg ==
    << "S", "c", "a", "n", ".", "J", "P", "E", "G" >>

NameDocPdf ==
    << "d", "o", "c", ".", "p", "d", "f" >>

NameBlob ==
    << "b", "l", "o", "b", ".", "b", "i", "n" >>

NameSample ==
    << "A", "_", "d", "i", "g", "i", "t", "a", "l", "_", "p", "h", "o", "t",
       "o", "g", "r", "a", "p", "h", "_", "d", "i", "s", "p", "l", "a", "y",
       "s", "_", "a", "_", "d", "a", "y", "t", "i", "m", "e", "_", "l", "a",
       "n", "d", "s", "c", "a", "p", "e", "_", ".", "p", "n", "g" >>

StringsOutDos ==
    << "T", "h", "i", "s", " ", "p", "r", "o", "g", "r", "a", "m", " ", "c",
       "a", "n", "n", "o", "t", " ", "b", "e", " ", "r", "u", "n", " ", "i",
       "n", " ", "M", "Z", " ", "m", "o", "d", "e" >>

StringsOutAll ==
    << "M", "Z", " ", "E", "L", "F", " ", "p", "a", "s", "s", "w", "o", "r",
       "d", " ", "s", "e", "c", "r", "e", "t", " ", "k", "e", "y", "=", "1",
       " ", "P", "R", "I", "V", "A", "T", "E", " ", "K", "E", "Y", " ", "-",
       "-", "-", "-", "-", "B", "E", "G", "I", "N" >>

StringsTail ==
    << "E", "L", "F", " ", "M", "Z", " ", "p", "a", "s", "s", "w", "o", "r",
       "d", " ", "P", "A", "S", "S", "W", "O", "R", "D" >>

StringsOutPlain ==
    << "h", "e", "l", "l", "o" >>

ReadelfOutHeader ==
    << "E", "L", "F", " ", "H", "e", "a", "d", "e", "r", ":" >>

ReadelfOutNone ==
    << "n", "o", "t", " ", "a", "n", " ", "e", "l", "f", " ", "f", "i", "l",
       "e" >>

MediaErr ==
    << "I", "n", "v", "a", "l", "i", "d", " ", "d", "a", "t", "a" >>

MediaOut ==
    << "{", "}" >>

ExifOut ==
    << "E", "x", "i", "f", "T", "o", "o", "l", " ", "V", "e", "r", "s", "i",
       "o", "n" >>

NewLine ==
    << "\n" >>

-----------------------------------------------------------------------------
(* Inputs: what a client can submit and what a child process can print *)

RequestNames ==
    {"file", "strings", "ffprobe", "mediainfo", "nonexistent-tool", "blkid"}

RECURSIVE SeqsUpTo(_, _)
SeqsUpTo(S, n) ==
    IF n = 0 THEN {<< >>}
    ELSE LET shorter == SeqsUpTo(S, n - 1)
         IN  shorter \cup {Append(s, x) : s \in shorter, x \in S}

Selections ==
    SeqsUpTo(RequestNames, MaxTools)

UploadNames ==
    {NamePhotoJpg, NamePhotoPng}

\* what the child of tool t may write to stdout, before safe_run strips it
RawStdout(t) ==
    CASE t = "file"      -> {FileOutPng \o NewLine, FileOutText \o NewLine}
      [] t = "strings"   -> {StringsOutDos \o NewLine, << >>}
      [] t = "ffprobe"   -> {MediaOut \o NewLine}
      [] t = "mediainfo" -> {<< >>}
      [] OTHER           -> {ExifOut \o NewLine}

\* what the child of tool t may write to stderr
RawStderr(t) ==
    CASE t \in {"ffprobe", "mediainfo"} -> {<< >>, MediaErr \o NewLine}
      [] OTHER                           -> {<< >>}

ExitCodes ==
    {0, 1}

OTHER_ERROR == "[Errno 13] Permission denied"

UPLOAD_PATH == "/srv/app/uploads/upload"

-----------------------------------------------------------------------------
(* safe_run and run_tools_on_file *)

\* part.format(file=filepath) for the tokens of the registry
Format(part, path) ==
    IF part = "{file}" THEN path ELSE part

\* cmd = [part.format(file=filepath) for part in cmd_template]
Command(t, path) ==
    [k \in 1..Len(TOOL_COMMANDS[t]) |-> Format(TOOL_COMMANDS[t][k], path)]

\* safe_run without its last, generic except clause
CaughtNoGeneric(kind) ==
    kind \in {"timeout", "binary-not-found"}

\* the except clauses of safe_run: which failures are turned into a result
Caught(kind) ==
    kind \in {"timeout", "binary-not-found", "other"}

\* the "error" value safe_run records
ErrorOf(kind) ==
    IF kind = "other" THEN OTHER_ERROR ELSE kind

Failure(cmd, kind) ==
    [cmd |-> cmd, error |-> ErrorOf(kind)]

Success(cmd, rc, out, err) ==
    [cmd |-> cmd, returncode |-> rc, stdout |-> Strip(out), stderr |-> Strip(err)]

\* the unknown name reported as a missing binary
NotConfiguredAsMissing ==
    [error |-> "binary-not-found"]

NotConfigured ==
    [error |-> "tool-not-configured"]

CurTool == selected_tools[idx]

Looping ==
    /\ pc = "dispatch"
    /\ idx <= Len(selected_tools)

\* the loop body for a name that is not a key of TOOL_COMMANDS
DispatchUnknown ==
    /\ Looping
    /\ CurTool \notin DOMAIN TOOL_COMMANDS
    /\ results' = Put(results, CurTool, NotConfigured)
    /\ idx' = idx + 1
    /\ UNCHANGED << pc, caller, form_tools, selected_tools, filename, filepath,
                    alive, procs, score, reasons, verdict, response >>

\* subprocess.run raises before a child exists (FileNotFoundError, other OSError)
LaunchFail ==
    /\ Looping
    /\ CurTool \in DOMAIN TOOL_COMMANDS
    /\ \E kind \in {"binary-not-found", "other"} :
          IF Caught(kind)
          THEN /\ results' = Put(results, CurTool, Failure(Command(CurTool, filepath), kind))
               /\ idx' = idx + 1
               /\ pc' = pc
          ELSE /\ pc' = "crashed"
               /\ UNCHANGED << results, idx >>
    /\ UNCHANGED << caller, form_tools, selected_tools, filename, filepath,
                    alive, procs, score, reasons, verdict, response >>

\* subprocess.run starts the child and blocks in communicate()
Spawn ==
    /\ Looping
    /\ CurTool \in DOMAIN TOOL_COMMANDS
    /\ procs' = Append(procs, [tool |-> CurTool, cmd |-> Command(CurTool, filepath)])
    /\ alive' = alive \cup {Len(procs) + 1}
    /\ pc' = "wait"
    /\ UNCHANGED << caller, form_tools, selected_tools, idx, filename, filepath,
                    results, score, reasons, verdict, response >>

\* the child exits within the timeout; safe_run returns the success dict
ChildExit ==
    /\ pc = "wait"
    /\ \E rc \in ExitCodes, out \in RawStdout(CurTool), err \in RawStderr(CurTool) :
          results' = Put(results, CurTool,
                         Success(Command(CurTool, filepath), rc, out, err))
    /\ alive' = alive \ {Len(procs)}
    /\ idx' = idx + 1
    /\ pc' = "dispatch"
    /\ UNCHANGED << caller, form_tools, selected_tools, filename, filepath,
                    procs, score, reasons, verdict, response >>

\* the timeout handled without killing the child
ChildAbortNoKill ==
    /\ pc = "wait"
    /\ \E kind \in {"timeout", "other"} :
          /\ results' = Put(results, CurTool, Failure(Command(CurTool, filepath), kind))
          /\ idx' = idx + 1
          /\ pc' = "dispatch"
    /\ UNCHANGED << caller, form_tools, selected_tools, filename, filepath,
                    alive, procs, score, reasons, verdict, response >>

\* communicate() raises (TimeoutExpired, or another error such as undecodable
\* output): subprocess.run kills the child, waits for it and re-raises
ChildAbort ==
    /\ pc = "wait"
    /\ alive' = alive \ {Len(procs)}
    /\ \E kind \in {"timeout", "other"} :
          IF Caught(kind)
          THEN /\ results' = Put(results, CurTool, Failure(Command(CurTool, filepath), kind))
               /\ idx' = idx + 1
               /\ pc' = "dispatch"
          ELSE /\ pc' = "crashed"
               /\ UNCHANGED << results, idx >>
    /\ UNCHANGED << caller, form_tools, selected_tools, filename, filepath,
                    procs, score, reasons, verdict, response >>

\* the for loop is exhausted: run_tools_on_file returns results and the
\* caller passes them to compute_suspicion_score (score = 0, reasons = [])
DispatchReturn ==
    /\ pc = "dispatch"
    /\ idx > Len(selected_tools)
    /\ pc' = "score_file"
    /\ score' = 0
    /\ reasons' = << >>
    /\ UNCHANGED << caller, form_tools, selected_tools, idx, filename, filepath,
                    results, alive, procs, verdict, response >>

-----------------------------------------------------------------------------
(* compute_suspicion_score *)

W_JPEG == 15
W_PNG == 12
W_PDF == 14
W_MZ == 25
W_ELF == 22
W_KEYWORD == 8
W_BINWALK_BASE == 5
W_BINWALK_MAX == 25
W_MEDIA == 10
W_READELF == 25
SCORE_MAX == 100
T_MALICIOUS == 50
T_SUSPICIOUS == 25

R_JPEG == "File type says JPEG but extension mismatch"
R_PNG == "File type says PNG but extension mismatch"
R_PDF == "File says PDF but extension mismatch"
R_MZ == "Found 'MZ' header inside file - possible embedded PE"
R_ELF == "Found 'ELF' inside file - possible embedded binary"
R_MEDIA == "ffprobe/mediainfo reported errors parsing media"
R_READELF == "readelf reports ELF header inside file"

KEYWORDS ==
    << [kw |-> KW_PASSWORD,    name |-> "password"],
       [kw |-> KW_SECRET,      name |-> "secret"],
       [kw |-> KW_KEY,         name |-> "key="],
       [kw |-> KW_PRIVATE_KEY, name |-> "private key"],
       [kw |-> KW_BEGIN,       name |-> "-----begin"] >>

\* f"Found suspicious keyword: {kw}"
KeywordReason(k) ==
    "Found suspicious keyword: " \o KEYWORDS[k].name

\* f"Binwalk found embedded content ({n} lines)"
BinwalkReason(n) ==
    "Binwalk found embedded content (" \o ToString(n) \o " lines)"

Min2(a, b) == IF a <= b THEN a ELSE b

Max2(a, b) == IF a >= b THEN a ELSE b

\* "if cond: score += w; reasons.append(reason)" as the list of what it adds
Hit(cond, w, reason) ==
    IF cond THEN << [w |-> w, reason |-> reason] >> ELSE << >>

RECURSIVE SumW(_)
SumW(hits) ==
    IF hits = << >> THEN 0 ELSE Head(hits).w + SumW(Tail(hits))

ReasonsOf(hits) ==
    [k \in 1..Len(hits) |-> hits[k].reason]

\* a dict is truthy iff it is not empty
Truthy(d) ==
    DOMAIN d # {}

\* the file rules comparing the output without lower-casing it
FileHitsCaseSensitive(res, fname) ==
    LET f_out == Get(res, "file", EmptyDict)
        s     == Get(f_out, "stdout", << >>)
        name  == Lower(fname)
    IN  IF ~Truthy(f_out) \/ s = << >> THEN << >>
        ELSE Hit(Contains(s, TXT_JPEG)
                   /\ ~(EndsWith(name, EXT_JPG) \/ EndsWith(name, EXT_JPEG)),
                 W_JPEG, R_JPEG)
             \o Hit(Contains(s, TXT_PNG) /\ ~EndsWith(name, EXT_PNG), W_PNG, R_PNG)
             \o Hit(Contains(s, TXT_PDF) /\ ~EndsWith(name, EXT_PDF), W_PDF, R_PDF)

\* lines 116-124; None and "" are both falsy, so a missing "stdout" reads as ""
FileHits(res, fname) ==
    LET f_out == Get(res, "file", EmptyDict)
        out   == Get(f_out, "stdout", << >>)
    IN  IF ~Truthy(f_out) \/ out = << >> THEN << >>
        ELSE LET s    == Lower(out)
                 name == Lower(fname)
             IN  Hit(Contains(s, TXT_JPEG)
                       /\ ~(EndsWith(name, EXT_JPG) \/ EndsWith(name, EXT_JPEG)),
                     W_JPEG, R_JPEG)
                 \o Hit(Contains(s, TXT_PNG) /\ ~EndsWith(name, EXT_PNG), W_PNG, R_PNG)
                 \o Hit(Contains(s, TXT_PDF) /\ ~EndsWith(name, EXT_PDF), W_PDF, R_PDF)

RECURSIVE KeywordHits(_, _)
KeywordHits(s_out, k) ==
    IF k > Len(KEYWORDS) THEN << >>
    ELSE Hit(Contains(s_out, KEYWORDS[k].kw), W_KEYWORD, KeywordReason(k))
         \o KeywordHits(s_out, k + 1)

\* the strings rules looking for the headers in the whole output
StringsHitsWholeOutput(res) ==
    LET s_out == Lower(Get(Get(res, "strings", EmptyDict), "stdout", << >>))
    IN  IF s_out = << >> THEN << >>
        ELSE Hit(Contains(s_out, TXT_MZ), W_MZ, R_MZ)
             \o Hit(Contains(s_out, TXT_ELF), W_ELF, R_ELF)
             \o KeywordHits(s_out, 1)

\* lines 127-137
StringsHits(res) ==
    LET s_out == Lower(Get(Get(res, "strings", EmptyDict), "stdout", << >>))
    IN  IF s_out = << >> THEN << >>
        ELSE LET head == Slice(s_out, HEAD_LEN)
             IN  Hit(Contains(head, TXT_MZ), W_MZ, R_MZ)
                 \o Hit(Contains(head, TXT_ELF), W_ELF, R_ELF)
                 \o KeywordHits(s_out, 1)

\* lines 140-145
BinwalkHits(res) ==
    LET bw  == Get(res, "binwalk", EmptyDict)
        out == Strip(Get(bw, "stdout", << >>))
        n   == LineCount(out)
    IN  Hit(Truthy(bw) /\ out # << >> /\ n > 2,
            Min2(W_BINWALK_MAX, W_BINWALK_BASE + n), BinwalkReason(n))

\* results.get("ffprobe", {}) or results.get("mediainfo", {})
MediaResult(res) ==
    LET ffprobe == Get(res, "ffprobe", EmptyDict)
    IN  IF Truthy(ffprobe) THEN ffprobe ELSE Get(res, "mediainfo", EmptyDict)

\* lines 148-150
MediaHits(res) ==
    LET ff == MediaResult(res)
    IN  Hit(Truthy(ff) /\ Get(ff, "stderr", << >>) # << >>, W_MEDIA, R_MEDIA)

\* lines 153-155
ReadelfHits(res) ==
    LET re_out == Get(Get(res, "readelf", EmptyDict), "stdout", << >>)
    IN  Hit(re_out # << >> /\ Contains(re_out, TXT_ELF_UPPER), W_READELF, R_READELF)

\* the clamp without its upper limit
ClampNoUpper(n) ==
    Max2(0, n)

\* max(0, min(100, score))
Clamp(n) ==
    Max2(0, Min2(SCORE_MAX, n))

\* the verdict with strict comparisons
VerdictOfStrict(n) ==
    IF n > T_MALICIOUS THEN "Likely Malicious"
    ELSE IF n > T_SUSPICIOUS THEN "Possibly Suspicious"
    ELSE "Likely Clean"

VerdictOf(n) ==
    IF n >= T_MALICIOUS THEN "Likely Malicious"
    ELSE IF n >= T_SUSPICIOUS THEN "Possibly Suspicious"
    ELSE "Likely Clean"

\* one rule block of the scorer: add what it hits, move on
Accumulate(hits, next) ==
    /\ score' = score + SumW(hits)
    /\ reasons' = reasons \o ReasonsOf(hits)
    /\ pc' = next
    /\ UNCHANGED << caller, form_tools, selected_tools, idx, filename, filepath,
                    results, alive, procs, verdict, response >>

ScoreFile ==
    /\ pc = "score_file"
    /\ Accumulate(FileHits(results, filename), "score_strings")

ScoreStrings ==
    /\ pc = "score_strings"
    /\ Accumulate(StringsHits(results), "score_binwalk")

ScoreBinwalk ==
    /\ pc = "score_binwalk"
    /\ Accumulate(BinwalkHits(results), "score_media")

ScoreMedia ==
    /\ pc = "score_media"
    /\ Accumulate(MediaHits(results), "score_readelf")

ScoreReadelf ==
    /\ pc = "score_readelf"
    /\ Accumulate(ReadelfHits(results), "score_clamp")

\* lines 157-159: clamp, derive the verdict, return
ScoreReturn ==
    /\ pc = "score_clamp"
    /\ score' = Clamp(score)
    /\ verdict' = VerdictOf(score')
    /\ pc' = "done"
    /\ UNCHANGED << caller, form_tools, selected_tools, idx, filename, filepath,
                    results, alive, procs, reasons, response >>

-----------------------------------------------------------------------------
(* Entry points *)

\* the locals of a call that has not started (or has returned)
NoCall ==
    /\ caller = "none"
    /\ form_tools = << >>
    /\ selected_tools = << >>
    /\ idx = 1
    /\ filename = << >>
    /\ filepath = ""
    /\ results = EmptyDict
    /\ procs = << >>
    /\ score = 0
    /\ reasons = << >>
    /\ verdict = "none"

Enter(who, form, selected, name, path) ==
    /\ caller' = who
    /\ form_tools' = form
    /\ selected_tools' = selected
    /\ filename' = name
    /\ filepath' = path
    /\ idx' = 1
    /\ results' = EmptyDict
    /\ procs' = << >>
    /\ response' = "none"
    /\ pc' = "dispatch"
    /\ UNCHANGED << alive, score, reasons, verdict >>

\* POST /analyze up to the call of run_tools_on_file
Analyze ==
    /\ pc = "idle"
    /\ \E tools \in Selections, use_sample \in BOOLEAN :
        LET selected == IF tools = << >> THEN DEFAULT_TOOLS ELSE tools
        IN  IF use_sample
            THEN Enter("analyze", tools, selected, NameSample, SAMPLE_FILE_PATH)
            ELSE \E name \in UploadNames :
                    Enter("analyze", tools, selected, name, UPLOAD_PATH)

\* POST /analyze ending in a redirect: sample missing, no file part, empty filename
AnalyzeRedirect ==
    /\ pc = "idle"
    /\ response' = "redirect"
    /\ UNCHANGED << pc, caller, form_tools, selected_tools, idx, filename, filepath,
                    results, alive, procs, score, reasons, verdict >>

\* run_tools_on_file(filepath, selected_tools) called as a function, followed
\* by compute_suspicion_score on what it returns
CallRunTools ==
    /\ pc = "idle"
    /\ \E tools \in Selections, name \in UploadNames :
        Enter("direct", tools, tools, name, UPLOAD_PATH)

\* the route writes the JSON report and renders it, a direct caller takes
\* (score, verdict, reasons); the locals of the call are gone
Respond ==
    /\ pc = "done"
    /\ pc' = "idle"
    /\ response' = IF caller = "analyze" THEN "report" ELSE "none"
    /\ caller' = "none"
    /\ form_tools' = << >>
    /\ selected_tools' = << >>
    /\ idx' = 1
    /\ filename' = << >>
    /\ filepath' = ""
    /\ results' = EmptyDict
    /\ procs' = << >>
    /\ score' = 0
    /\ reasons' = << >>
    /\ verdict' = "none"
    /\ UNCHANGED alive

Init ==
    /\ pc = "idle"
    /\ NoCall
    /\ alive = {}
    /\ response = "none"

Next ==
    \/ Analyze
    \/ AnalyzeRedirect
    \/ CallRunTools
    \/ DispatchUnknown
    \/ LaunchFail
    \/ Spawn
    \/ ChildExit
    \/ ChildAbort
    \/ DispatchReturn
    \/ ScoreFile
    \/ ScoreStrings
    \/ ScoreBinwalk
    \/ ScoreMedia
    \/ ScoreReadelf
    \/ ScoreReturn
    \/ Respond

Spec == Init /\ [][Next]_vars

-----------------------------------------------------------------------------
(* The scorer called on its own: compute_suspicion_score(results, filename) *)
(* for result dicts of the shapes safe_run returns.                         *)

\* n characters that are part of no marker
Pad(n) ==
    [k \in 1..n |-> "x"]

\* "ELFMZ" ending exactly at character HEAD_LEN
StringsOutHeadEnd ==
    Pad(HEAD_LEN - 5) \o << "E", "L", "F", "M", "Z" >>

\* "ELF" inside the head, "MZ" straddling its end
StringsOutStraddle ==
    Pad(HEAD_LEN - 4) \o << "E", "L", "F", "M", "Z" >>

\* both markers and a keyword only after character HEAD_LEN
StringsOutTail ==
    Pad(HEAD_LEN) \o StringsTail

\* n lines of binwalk output
BinwalkOut(n) ==
    [k \in 1..(2 * n - 1) |-> IF k % 2 = 1 THEN "0" ELSE "\n"]

ScoredNames ==
    {NamePhotoJpg, NamePhotoPng, NameScanJpeg, NameDocPdf, NameBlob}

\* a result dict of safe_run for tool t
Ran(t, rc, out, err) ==
    Success(Command(t, UPLOAD_PATH), rc, out, err)

Failed(t, kind) ==
    Failure(Command(t, UPLOAD_PATH), kind)

\* per tool: << >> when the tool was not requested, << result >> otherwise
FileChoices ==
    { << >>, << Failed("file", "timeout") >>,
      << Ran("file", 0, FileOutPng, << >>) >>,
      << Ran("file", 1, FileOutAll, << >>) >>,
      << Ran("file", 0, << >>, << >>) >> }

StringsChoices ==
    { << >>, << Failed("strings", "binary-not-found") >> }
    \cup { << Ran("strings", 0, out, << >>) >> :
             out \in {StringsOutDos, StringsOutAll, StringsOutPlain,
                      StringsOutHeadEnd, StringsOutStraddle, StringsOutTail} }

BinwalkChoices ==
    { << >> } \cup { << Ran("binwalk", 0, BinwalkOut(n), << >>) >> : n \in BinwalkLines }

FfprobeChoices ==
    { << >>, << Failed("ffprobe", "binary-not-found") >>,
      << Ran("ffprobe", 0, MediaOut, << >>) >>,
      << Ran("ffprobe", 1, << >>, MediaErr) >> }

MediainfoChoices ==
    { << >>,
      << Ran("mediainfo", 0, MediaOut, << >>) >>,
      << Ran("mediainfo", 0, << >>, MediaErr) >> }

ReadelfChoices ==
    { << >>,
      << Ran("readelf", 0, ReadelfOutHeader, << >>) >>,
      << Ran("readelf", 1, ReadelfOutNone, << >>) >> }

\* the dict holding the chosen results
MakeResults(choice) ==
    [t \in {n \in DOMAIN choice : choice[n] # << >>} |-> choice[t][1]]

InitScore ==
    /\ pc = "score_file"
    /\ caller = "score"
    /\ form_tools = << >>
    /\ selected_tools = << >>
    /\ idx = 1
    /\ filename \in ScoredNames
    /\ filepath = UPLOAD_PATH
    /\ \E f \in FileChoices, s \in StringsChoices, b \in BinwalkChoices,
          p \in FfprobeChoices, m \in MediainfoChoices, r \in ReadelfChoices :
          results = MakeResults([file |-> f, strings |-> s, binwalk |-> b,
                                 ffprobe |-> p, mediainfo |-> m, readelf |-> r])
    /\ alive = {}
    /\ procs = << >>
    /\ score = 0
    /\ reasons = << >>
    /\ verdict = "none"
    /\ response = "none"

NextScore ==
    \/ ScoreFile
    \/ ScoreStrings
    \/ ScoreBinwalk
    \/ ScoreMedia
    \/ ScoreReadelf
    \/ ScoreReturn

SpecScore == InitScore /\ [][NextScore]_vars

-----------------------------------------------------------------------------
(* Properties *)

Scoring ==
    pc \in {"score_file", "score_strings", "score_binwalk", "score_media",
            "score_readelf", "score_clamp"}

\* run_tools_on_file has returned its mapping
Returned ==
    /\ caller \in {"analyze", "direct"}
    /\ Scoring \/ pc = "done"

IsFailure(r) ==
    "error" \in DOMAIN r

IsSuccess(r) ==
    "stdout" \in DOMAIN r

HasReason(r) ==
    \E k \in 1..Len(reasons) : reasons[k] = r

CountReason(r) ==
    Cardinality({k \in 1..Len(reasons) : reasons[k] = r})

Verdicts ==
    {"Likely Malicious", "Possibly Suspicious", "Likely Clean"}

\* the whole scorer as one function: << score, reasons >>
ComputeScore(res, fname) ==
    LET hits == FileHits(res, fname) \o StringsHits(res) \o BinwalkHits(res)
                \o MediaHits(res) \o ReadelfHits(res)
    IN  << Clamp(SumW(hits)), ReasonsOf(hits) >>

\* C1: the score compute_suspicion_score returns is an integer in [0,100],
\* whatever the results mapping and the file name, also when the weights of
\* the rules that fired add up to more than 100.
C1_ScoreClamped ==
    pc = "done" => score \in 0..100

\* every rule fired (13 reasons, weights adding up to 188) and the score is 100
C1_Witness ==
    /\ pc = "done"
    /\ caller = "score"
    /\ Len(reasons) = 13
    /\ score = 100

\* C2: the verdict is a step function of the returned score: at least 50 is
\* "Likely Malicious", 25 to 49 is "Possibly Suspicious", below 25 is
\* "Likely Clean".
C2_VerdictThresholds ==
    pc = "done" =>
        /\ score >= 50 => verdict = "Likely Malicious"
        /\ (score >= 25 /\ score < 50) => verdict = "Possibly Suspicious"
        /\ score < 25 => verdict = "Likely Clean"
        /\ score = 24 => verdict = "Likely Clean"
        /\ score \in {25, 49} => verdict = "Possibly Suspicious"
        /\ score = 50 => verdict = "Likely Malicious"

\* a returned score on the edge of a step
C2_Witness ==
    /\ pc = "done"
    /\ score = 50
    /\ verdict = "Likely Malicious"

C3_State ==
    /\ pc # "crashed"
    /\ Returned =>
          /\ DOMAIN results = Elems(selected_tools)
          /\ \A t \in DOMAIN results :
                t \in DOMAIN TOOL_COMMANDS => "cmd" \in DOMAIN results[t]
    /\ (pc = "done" /\ caller \in {"analyze", "direct"}) =>
          /\ score \in 0..100
          /\ verdict \in Verdicts

\* the current tool's result is recorded and the loop is on the next tool
C3_Recorded ==
    /\ pc' = "dispatch"
    /\ idx' = idx + 1
    /\ selected_tools' = selected_tools
    /\ selected_tools[idx] \in DOMAIN results'

\* an iteration of the loop either starts the child or ends with the result
\* recorded; a wait for a child always ends with the result recorded; once
\* the loop is over the scorer runs through to its return
C3_Step ==
    /\ Looping => (pc' = "wait" /\ idx' = idx) \/ C3_Recorded
    /\ pc = "wait" => C3_Recorded
    /\ (pc = "dispatch" /\ ~Looping) => pc' = "score_file"
    /\ Scoring => (pc' # pc /\ (Scoring' \/ pc' = "done"))

\* C3: run_tools_on_file followed by compute_suspicion_score always completes
\* and no error escapes: whatever happens to a tool (success, timeout, binary
\* not found, other failure, not configured) is recorded as that tool's
\* result, the loop goes on to the next tool, the mapping ends with an entry
\* for every requested name, and a score, verdict and reasons are produced.
\* Completion is stated step by step: the analysis never enters the state of
\* an escaped error, and every step takes it strictly forward.
C3_AlwaysCompletes ==
    /\ []C3_State
    /\ [][C3_Step]_vars

\* an analysis that finished although each of its (two or more) tools failed
C3_Witness ==
    /\ pc = "done"
    /\ Cardinality(DOMAIN results) >= 2
    /\ \A t \in DOMAIN results : IsFailure(results[t])
    /\ \E t \in DOMAIN results : results[t].error = "timeout"
    /\ verdict = "Likely Clean"

\* the results mapping without the names that are not keys of the registry
Configured(res) ==
    [t \in DOMAIN res \cap DOMAIN TOOL_COMMANDS |-> res[t]]

\* C4: a requested name that is not a key of the registry gets the result
\* Failure "tool-not-configured", no process is spawned for it, and the scorer
\* gives the score and the reasons it gives without that entry.
C4_NotConfigured ==
    /\ \A k \in 1..Len(selected_tools) :
          (selected_tools[k] \notin DOMAIN TOOL_COMMANDS /\ (k < idx \/ Returned)) =>
             /\ selected_tools[k] \in DOMAIN results
             /\ results[selected_tools[k]] = [error |-> "tool-not-configured"]
             /\ \A p \in 1..Len(procs) :
                   /\ procs[p].tool # selected_tools[k]
                   /\ procs[p].cmd[1] # selected_tools[k]
    /\ (pc = "done" /\ caller \in {"analyze", "direct"}) =>
          << score, reasons >> = ComputeScore(Configured(results), filename)

\* an unknown name was requested next to a tool that ran and scored
C4_Witness ==
    /\ pc = "done"
    /\ "nonexistent-tool" \in DOMAIN results
    /\ Len(procs) >= 1
    /\ score > 0

\* C5: no process is ever spawned for a name of DANGEROUS_TOOLS, whatever the
\* client selects; every executable launched is that of a registry entry.
C5_NoDangerousTool ==
    \A p \in 1..Len(procs) :
        /\ procs[p].tool \notin Elems(DANGEROUS_TOOLS)
        /\ procs[p].cmd[1] \notin Elems(DANGEROUS_TOOLS)
        /\ procs[p].cmd[1] \in
              {"exiftool", "exiv2", "identify", "mat2", "strings", "binwalk",
               "ffprobe", "mediainfo", "readelf", "objdump", "rabin2",
               "pdfinfo", "pdfimages", "docx2txt", "qpdf", "mutool",
               "tshark", "file"}

\* a selection naming an informational-only tool was dispatched to the end
\* and a registry tool of the same selection was launched
C5_Witness ==
    /\ Returned
    /\ \E k \in 1..Len(selected_tools) : selected_tools[k] = "blkid"
    /\ Len(procs) >= 1

\* C6 as stated: run_tools_on_file, handed an empty selection, returns results
\* for exactly file, strings and exiftool.
C6_DispatcherSubstitutes ==
    (Returned /\ form_tools = << >>) =>
        DOMAIN results = {"file", "strings", "exiftool"}

\* C6 amended: the default selection is substituted by the analyze route
\* before it calls run_tools_on_file, so a request with an empty selection
\* gets results for exactly file, strings and exiftool; run_tools_on_file
\* itself, handed an empty selection, returns an empty mapping.
C6_RouteSubstitutes ==
    (Returned /\ form_tools = << >>) =>
        IF caller = "analyze"
        THEN /\ selected_tools = << "file", "strings", "exiftool" >>
             /\ DOMAIN results = {"file", "strings", "exiftool"}
        ELSE /\ selected_tools = << >>
             /\ DOMAIN results = {}

\* a request without a selection whose three default tools were dispatched
C6_Witness ==
    /\ Returned
    /\ caller = "analyze"
    /\ form_tools = << >>
    /\ Cardinality(DOMAIN results) = 3

C7_State ==
    /\ Cardinality(alive) <= 1
    /\ pc # "wait" => alive = {}
    /\ pc = "wait" => alive = {Len(procs)}

C7_Step ==
    /\ procs' # procs /\ procs' # << >> =>
          /\ alive = {}
          /\ procs' = Append(procs, [tool |-> selected_tools[idx],
                                     cmd |-> procs'[Len(procs')].cmd])
          /\ \A k \in 1..(idx - 1) : selected_tools[k] \in DOMAIN results
    /\ (pc = "wait" \/ Looping) =>
          \A t \in DOMAIN results :
              t # selected_tools[idx] => (t \in DOMAIN results' /\ results'[t] = results[t])

\* C7: within a request the tools run one after another in the requested
\* order: at most one child is alive, a child is started only when no child is
\* alive and the results of all earlier tools are recorded, a child that
\* times out is killed so that none is alive when the mapping is complete,
\* and what happens to one tool changes no other tool's result.
C7_Sequential ==
    /\ []C7_State
    /\ [][C7_Step]_vars

\* a tool timed out, another tool of the same request succeeded, no child is
\* left
C7_Witness ==
    /\ Returned
    /\ Len(procs) = 2
    /\ alive = {}
    /\ \E t \in DOMAIN results : IsFailure(results[t]) /\ results[t].error = "timeout"
    /\ \E t \in DOMAIN results : IsSuccess(results[t])

\* the result the media rule would look at if a failed ffprobe result
\* counted as absent
C8_MediaResultClaimed(res) ==
    IF "ffprobe" \in DOMAIN res /\ ~IsFailure(res["ffprobe"]) THEN res["ffprobe"]
    ELSE IF "mediainfo" \in DOMAIN res THEN res["mediainfo"]
    ELSE EmptyDict

\* C8: the media rule adds 10, with one reason, exactly when the result it
\* looks at has non-empty stderr: ffprobe's result, or mediainfo's if
\* ffprobe's is absent, a failed ffprobe result counting as absent.
C8_MediaFallback ==
    pc \in {"score_readelf", "score_clamp"} =>
        CountReason(R_MEDIA) =
            IF Get(C8_MediaResultClaimed(results), "stderr", << >>) # << >>
            THEN 1 ELSE 0

\* C9: when the file tool produced output, "jpeg" in it (any case) with a name
\* not ending in .jpg/.jpeg adds 15, "png" with a name not ending in .png adds
\* 12, "pdf" with a name not ending in .pdf adds 14, each on its own, and
\* nothing else is added; "PNG image data, 800x600" adds 12 and the PNG reason
\* for photo.jpg and nothing for photo.png; a failed file result adds nothing.
C9_FileMismatch ==
    pc = "score_strings" =>
        LET ran  == "file" \in DOMAIN results /\ IsSuccess(results["file"])
            out  == IF ran THEN Lower(results["file"].stdout) ELSE << >>
            name == Lower(filename)
            jpeg == Contains(out, << "j", "p", "e", "g" >>)
                    /\ ~EndsWith(name, << ".", "j", "p", "g" >>)
                    /\ ~EndsWith(name, << ".", "j", "p", "e", "g" >>)
            png  == Contains(out, << "p", "n", "g" >>)
                    /\ ~EndsWith(name, << ".", "p", "n", "g" >>)
            pdf  == Contains(out, << "p", "d", "f" >>)
                    /\ ~EndsWith(name, << ".", "p", "d", "f" >>)
        IN  /\ score = (IF jpeg THEN 15 ELSE 0) + (IF png THEN 12 ELSE 0)
                       + (IF pdf THEN 14 ELSE 0)
            /\ CountReason("File type says JPEG but extension mismatch")
                  = IF jpeg THEN 1 ELSE 0
            /\ CountReason("File type says PNG but extension mismatch")
                  = IF png THEN 1 ELSE 0
            /\ CountReason("File says PDF but extension mismatch")
                  = IF pdf THEN 1 ELSE 0
            /\ Len(reasons) = (IF jpeg THEN 1 ELSE 0) + (IF png THEN 1 ELSE 0)
                              + (IF pdf THEN 1 ELSE 0)
            /\ (ran /\ results["file"].stdout = FileOutPng) =>
                  IF filename = NamePhotoJpg THEN score = 12
                  ELSE (filename = NamePhotoPng => score = 0)
            /\ ~ran => score = 0

\* file said "PNG image data, 800x600" of photo.jpg and 12 was added
C9_Witness ==
    /\ pc = "score_strings"
    /\ "file" \in DOMAIN results
    /\ IsSuccess(results["file"])
    /\ results["file"].stdout = FileOutPng
    /\ filename = NamePhotoJpg
    /\ score = 12
    /\ reasons = << "File type says PNG but extension mismatch" >>

C10_KeywordCount(out) ==
    Cardinality({k \in 1..Len(KEYWORDS) : Contains(out, KEYWORDS[k].kw)})

\* C10: the strings rules add 25 with the MZ reason exactly when "mz" is in
\* the first 800 characters of the lower-cased strings output, 22 exactly when
\* "elf" is in them, and 8 for each of the five keywords found anywhere in
\* the whole output, once per keyword.
C10_Step ==
    pc = "score_strings" =>
        LET out  == IF "strings" \in DOMAIN results /\ IsSuccess(results["strings"])
                    THEN Lower(results["strings"].stdout) ELSE << >>
            head == SubSeq(out, 1, IF Len(out) < 800 THEN Len(out) ELSE 800)
            mz   == Contains(head, << "m", "z" >>)
            elf  == Contains(head, << "e", "l", "f" >>)
            kws  == C10_KeywordCount(out)
        IN  /\ score' = score + (IF mz THEN 25 ELSE 0) + (IF elf THEN 22 ELSE 0)
                              + 8 * kws
            /\ Len(reasons') = Len(reasons) + (IF mz THEN 1 ELSE 0)
                               + (IF elf THEN 1 ELSE 0) + kws
            /\ (\E k \in 1..Len(reasons') : reasons'[k] = R_MZ) <=> mz
            /\ (\E k \in 1..Len(reasons') : reasons'[k] = R_ELF) <=> elf

C10_StringsHead ==
    [][C10_Step]_vars

\* the markers and a keyword stand only after character 800: the keyword
\* counted, the markers did not
C10_Witness ==
    /\ pc = "score_binwalk"
    /\ "strings" \in DOMAIN results
    /\ IsSuccess(results["strings"])
    /\ results["strings"].stdout = StringsOutTail
    /\ ~HasReason(R_MZ)
    /\ ~HasReason(R_ELF)
    /\ HasReason("Found suspicious keyword: password")
    /\ CountReason("Found suspicious keyword: password") = 1

====
